---- MODULE Spec2Model ----
(***************************************************************************)
(* SandboxBridge: the cookie command channel of content.js and the         *)
(* SandboxBridge class of sandbox-bridge.js, as one state machine, with    *)
(* executeCustomCode of content.js beside them.                            *)
(*                                                                         *)
(* Scheduling.  The page is single threaded: a timer callback, a message   *)
(* listener or the synchronous part of an async function runs to the next  *)
(* await without any other callback of the page in between.  `running'     *)
(* names the checkForCommands invocation that is inside such a section;    *)
(* every other callback of the page waits for running = 0.  The cookie     *)
(* store is shared with the controller, which is another process, so the   *)
(* controller's reads and writes fall between any two cookie operations.   *)
(*                                                                         *)
(* Time.  Every timer holds the milliseconds left until it is due.         *)
(* Advance moves time to the next timer that is due.  Ticks of the 50 ms   *)
(* readiness interval that find ready = false change nothing and are       *)
(* folded into the advance.  AdvanceQuantum moves time by one Quantum, for *)
(* the specification that places an event between two timers.              *)
(***************************************************************************)
EXTENDS Integers, Sequences, FiniteSets, TLC

\* ---- bounds of the model ----
\* calls of execute() and of executeCustomCode; commands written; polls in
\* flight; polls that pick the same command up; commands written without
\* regard to the status; polls on an empty slot that are counted; the step
\* of time where an event is placed between two timers.
MaxCalls == 2
MaxWrites == 2
MaxPolls == 2
MaxRepeat == 2
MaxUnasked == 1
MaxEmptyPolls == 2
Quantum == 50

\* ---- program constants ----
ReadyPollMs == 50
ReadyWaitMs == 5000
ExecTimeoutMs == 30000
WaitStepMs == 100

VARIABLES
    cmdSlot,            \* cookie pw_cmd
    statusSlot,         \* cookie pw_status
    resultSlot,         \* cookie pw_result
    poll,               \* the checkForCommands invocations in flight
    running,            \* the invocation inside a synchronous section, or 0
    writes,             \* commands written by the controller so far
    emptyPolls,         \* polls that found the command slot empty so far
    hist,               \* per written command: what the polls did with it
    ready,              \* SandboxBridge.ready
    pendingExecutions,  \* keys of SandboxBridge.pendingExecutions
    call,               \* the execute() calls and their promises
    lastEvt,            \* the last run of the message listener
    present,            \* the target element is in the document
    ctl,                \* the controller
    xc                  \* the executeCustomCode invocations

vars == <<cmdSlot, statusSlot, resultSlot, poll, running, writes, emptyPolls, hist,
          ready, pendingExecutions, call, lastEvt, present, ctl, xc>>

chanVars == <<cmdSlot, statusSlot, resultSlot, poll, running, writes, emptyPolls,
              hist, ctl, xc>>
slotVars == <<cmdSlot, statusSlot, resultSlot>>

Min(S) == CHOOSE x \in S : \A y \in S : x <= y

CallIds == 1..MaxCalls
PollIds == 1..MaxPolls
WriteIds == 1..MaxWrites
CustomIds == 1..MaxCalls

NoTimer == 0 - 1

\* ---------------------------------------------------------------------
\* Values
\* ---------------------------------------------------------------------
Iframe == "iframe"
Foreign == "foreign"
NoField == "<missing>"

DomTypes == {"DOM_QUERY", "DOM_QUERY_ALL", "DOCUMENT_QUERY", "CUSTOM_QUERY"}
ExecTypes == {"EXECUTION_RESULT", "EXECUTION_ERROR"}

\* A Result object: tag names its shape, v its payload.
\*   success {success:true}   fail {success:false, error:v}   value: v itself
\*   error {error:v, stack}   parse {error:'Command parse error', message}
Res(tag, v) == [tag |-> tag, v |-> v]
NoRes == Res("none", "")

NoPost == [type |-> "none", id |-> 0, res |-> "none"]
NoEvt == [src |-> "none", type |-> "none", id |-> 0, val |-> "", at |-> "none",
          post |-> NoPost, threw |-> FALSE]

NoCall == [phase |-> "none", owner |-> 0, out |-> "", waited |-> 0, age |-> 0,
           readyLeft |-> NoTimer, checkLeft |-> NoTimer, execLeft |-> NoTimer]

NoCmd == [w |-> 0, raw |-> "none", timeout |-> 0]
NoStatus == [w |-> 0, v |-> "none"]
NoResult == [w |-> 0, res |-> NoRes]
IdlePoll == [pc |-> "idle", w |-> 0, cmd |-> NoCmd, res |-> NoRes, i |-> 0,
             sleepLeft |-> NoTimer, elapsed |-> 0, appearAt |-> NoTimer, call |-> 0]
\* An invocation of executeCustomCode: the loop variable, the sendMessage
\* calls made and failed so far, the timer of the backoff, the value returned.
NoCustom == [pc |-> "idle", attempt |-> 0, sent |-> 0, failed |-> 0,
             sleepLeft |-> NoTimer, slept |-> 0, ret |-> "none"]
IdleCtl == [pc |-> "idle", w |-> 0, statusW |-> 0, resultW |-> 0]
NoHist == [raw |-> "none", picks |-> 0, processing |-> 0, results |-> 0,
           terminals |-> 0, finished |-> 0]

\* ---------------------------------------------------------------------
\* SandboxBridge (sandbox-bridge.js)
\* ---------------------------------------------------------------------

\* executeCommand, case 'custom': what the command's handler returns once
\* the promise of execute() is settled.  sandboxResult || {success: true}
\* for a resolved promise, {error: error.message, stack} for a rejected one.
CustomResult(phase, out) ==
    IF phase = "resolved"
    THEN (IF out = "falsy" THEN Res("success", "") ELSE Res("value", out))
    ELSE Res("error", out)

\* The promise of call k settles: its awaiting code, if any, continues in
\* the same task.  A call made by checkForCommands resumes that invocation
\* with the Result of the custom command.
SettleCall(k, phase, out) ==
    [call EXCEPT ![k].phase = phase, ![k].out = out, ![k].waited = 0, ![k].age = 0]

ResumeOwner(k, phase, out) ==
    IF call[k].owner = 0
    THEN poll
    ELSE [poll EXCEPT ![call[k].owner].pc = "writeResult",
                      ![call[k].owner].res = CustomResult(phase, out)]

\* execute(), from the generation of the id to the arming of the 30 s
\* timer: the id is k, EXECUTE_CODE is posted, the record is inserted.
Dispatched(c) ==
    [c EXCEPT !.phase = "dispatched", !.age = 0, !.execLeft = ExecTimeoutMs,
              !.readyLeft = NoTimer, !.checkLeft = NoTimer]

\* execute(), from its entry to its first suspension.
ExecuteEntry(owner) ==
    IF ready
    THEN Dispatched([NoCall EXCEPT !.owner = owner])
    ELSE [NoCall EXCEPT !.owner = owner, !.phase = "waiting", !.waited = 0,
                        !.checkLeft = ReadyPollMs, !.readyLeft = ReadyWaitMs]

\* Mutant: execute() returns after the post, and the record is not yet in
\* the table when the next task runs.
PendingAfterEntryLate(k) ==
    pendingExecutions

\* The table after the entry of execute(): line 228 runs in the same task as
\* the post of line 220.
PendingAfterEntry(k) ==
    IF ready THEN pendingExecutions \cup {k} ELSE pendingExecutions

NextCall == Cardinality({k \in CallIds : call[k].phase # "none"}) + 1

\* A caller of window._sandboxBridge.execute other than checkForCommands.
Execute ==
    /\ running = 0
    /\ NextCall \in CallIds
    /\ call' = [call EXCEPT ![NextCall] = ExecuteEntry(0)]
    /\ pendingExecutions' = PendingAfterEntry(NextCall)
    /\ UNCHANGED <<chanVars, ready, lastEvt, present>>

\* The 50 ms interval of the readiness wait.
ReadyCheck(k) ==
    /\ running = 0
    /\ call[k].phase = "waiting"
    /\ call[k].checkLeft = 0
    /\ IF ready
       THEN /\ call' = [call EXCEPT ![k] = Dispatched(call[k])]
            /\ pendingExecutions' = pendingExecutions \cup {k}
       ELSE /\ call' = [call EXCEPT ![k].checkLeft = ReadyPollMs]
            /\ UNCHANGED pendingExecutions
    /\ UNCHANGED <<chanVars, ready, lastEvt, present>>

\* Mutant: the timeout of the readiness wait rejects without the test of
\* this.ready that follows the wait.
ReadyTimeoutNoTest(k) ==
    /\ running = 0
    /\ call[k].phase = "waiting"
    /\ call[k].readyLeft = 0
    /\ call' = [SettleCall(k, "rejected", "Sandbox not ready")
                    EXCEPT ![k].readyLeft = NoTimer, ![k].checkLeft = NoTimer]
    /\ poll' = ResumeOwner(k, "rejected", "Sandbox not ready")
    /\ running' = call[k].owner
    /\ UNCHANGED <<slotVars, writes, emptyPolls, hist, ctl, ready, lastEvt, present,
                   pendingExecutions, xc>>

\* Mutant: after the 5 s timeout execute() goes on to the dispatch without
\* the test of this.ready.
ReadyTimeoutDispatches(k) ==
    /\ running = 0
    /\ call[k].phase = "waiting"
    /\ call[k].readyLeft = 0
    /\ call' = [call EXCEPT ![k] = Dispatched(call[k])]
    /\ pendingExecutions' = pendingExecutions \cup {k}
    /\ UNCHANGED <<slotVars, poll, running, writes, emptyPolls, hist, ctl, ready,
                   lastEvt, present, xc>>

\* The 5 s timeout of the readiness wait, and the test that follows it.
ReadyTimeout(k) ==
    /\ running = 0
    /\ call[k].phase = "waiting"
    /\ call[k].readyLeft = 0
    /\ IF ready
       THEN /\ call' = [call EXCEPT ![k] = Dispatched(call[k])]
            /\ pendingExecutions' = pendingExecutions \cup {k}
            /\ UNCHANGED <<poll, running, xc>>
       ELSE /\ call' = [SettleCall(k, "rejected", "Sandbox not ready")
                            EXCEPT ![k].readyLeft = NoTimer, ![k].checkLeft = NoTimer]
            /\ poll' = ResumeOwner(k, "rejected", "Sandbox not ready")
            /\ running' = call[k].owner
            /\ UNCHANGED pendingExecutions
    /\ UNCHANGED <<slotVars, writes, emptyPolls, hist, ctl, ready, lastEvt, present, xc>>

\* Mutant: the 30 s timer rejects and leaves the record in the table.
ExecTimeoutKeepsRecord(k) ==
    /\ running = 0
    /\ call[k].execLeft = 0
    /\ IF k \in pendingExecutions
       THEN /\ call' = [SettleCall(k, "rejected", "Execution timeout")
                            EXCEPT ![k].execLeft = NoTimer]
            /\ poll' = ResumeOwner(k, "rejected", "Execution timeout")
            /\ running' = call[k].owner
       ELSE /\ call' = [call EXCEPT ![k].execLeft = NoTimer]
            /\ UNCHANGED <<poll, running, xc>>
    /\ UNCHANGED <<slotVars, writes, emptyPolls, hist, ctl, ready, lastEvt, present,
                   pendingExecutions, xc>>

\* The 30 s timer of a dispatched call.
ExecTimeout(k) ==
    /\ running = 0
    /\ call[k].execLeft = 0
    /\ IF k \in pendingExecutions
       THEN /\ pendingExecutions' = pendingExecutions \ {k}
            /\ call' = [SettleCall(k, "rejected", "Execution timeout")
                            EXCEPT ![k].execLeft = NoTimer]
            /\ poll' = ResumeOwner(k, "rejected", "Execution timeout")
            /\ running' = call[k].owner
       ELSE /\ call' = [call EXCEPT ![k].execLeft = NoTimer]
            /\ UNCHANGED <<pendingExecutions, poll, running, xc>>
    /\ UNCHANGED <<slotVars, writes, emptyPolls, hist, ctl, ready, lastEvt, present, xc>>

\* The answer of the listener to a query of the executor: the value it
\* posts, or threw when an exception leaves the listener before the post.
DomAnswer(type, kind) ==
    CASE type = "DOM_QUERY" ->
           (CASE kind = "hit" -> [threw |-> FALSE, res |-> "element"]
              [] kind = "miss" -> [threw |-> FALSE, res |-> "null"]
              [] OTHER -> [threw |-> TRUE, res |-> "none"])
      [] type = "DOM_QUERY_ALL" ->
           (CASE kind = "hit" -> [threw |-> FALSE, res |-> "list"]
              [] kind = "miss" -> [threw |-> FALSE, res |-> "emptyList"]
              [] OTHER -> [threw |-> TRUE, res |-> "none"])
      [] type = "DOCUMENT_QUERY" ->
           (CASE kind = "noBody" -> [threw |-> TRUE, res |-> "none"]
              [] OTHER -> [threw |-> FALSE, res |-> "snapshot"])
      [] OTHER ->
           (CASE kind = "value" -> [threw |-> FALSE, res |-> "value"]
              [] kind = "missing" -> [threw |-> FALSE, res |-> "undefined"]
              [] kind = "getterThrows" -> [threw |-> FALSE, res |-> "errorObject"]
              [] kind = "noPath" -> [threw |-> FALSE, res |-> "errorObject"]
              [] OTHER -> [threw |-> TRUE, res |-> "none"])

DomPost(m) ==
    IF DomAnswer(m.type, m.kind).threw
    THEN NoPost
    ELSE [type |-> "DOM_RESULT", id |-> m.id, res |-> DomAnswer(m.type, m.kind).res]

\* A call is not made, open (waiting or dispatched) or settled.
Stage(phase) ==
    CASE phase = "none" -> "none"
      [] phase \in {"waiting", "dispatched"} -> "open"
      [] OTHER -> "settled"

\* What one run of the listener did: the message, the state of the call it
\* names when the listener started, what was posted, whether it threw.
Evt(src, m, post, threw) ==
    [src |-> src, type |-> m.type, id |-> m.id, val |-> m.val,
     at |-> IF m.type \in ExecTypes THEN Stage(call[m.id].phase) ELSE "none",
     post |-> post, threw |-> threw]

\* The listener, lines 181-191, with the record looked up under `id'.
Respond(src, m, id) ==
    IF id \in pendingExecutions
    THEN /\ pendingExecutions' = pendingExecutions \ {id}
         /\ IF m.type = "EXECUTION_RESULT"
            THEN /\ call' = SettleCall(id, "resolved", m.val)
                 /\ poll' = ResumeOwner(id, "resolved", m.val)
                 /\ running' = call[id].owner
                 /\ lastEvt' = Evt(src, m, NoPost, FALSE)
            ELSE IF m.val = NoField
                 THEN \* error.message of undefined: a TypeError leaves the listener
                      /\ lastEvt' = Evt(src, m, NoPost, TRUE)
                      /\ UNCHANGED <<call, poll, running, xc>>
                 ELSE /\ call' = SettleCall(id, "rejected", m.val)
                      /\ poll' = ResumeOwner(id, "rejected", m.val)
                      /\ running' = call[id].owner
                      /\ lastEvt' = Evt(src, m, NoPost, FALSE)
    ELSE /\ lastEvt' = Evt(src, m, NoPost, FALSE)
         /\ UNCHANGED <<pendingExecutions, call, poll, running, xc>>

\* Mutant: the response settles the oldest pending call, whatever its id.
OnExecutionOldest(src, m) ==
    Respond(src, m, IF pendingExecutions = {} THEN m.id ELSE Min(pendingExecutions))

\* The listener on EXECUTION_RESULT and EXECUTION_ERROR: pendingExecutions.get(id).
OnExecution(src, m) ==
    Respond(src, m, m.id)

\* The listener after its test of event.source, lines 49-191.
Handle(src, m) ==
    IF m.type = "SANDBOX_READY"
    THEN /\ ready' = TRUE
         /\ lastEvt' = Evt(src, m, NoPost, FALSE)
         /\ UNCHANGED <<pendingExecutions, call, poll, running, xc>>
    ELSE IF m.type \in DomTypes
    THEN /\ lastEvt' = Evt(src, m, DomPost(m), DomAnswer(m.type, m.kind).threw)
         /\ UNCHANGED <<ready, pendingExecutions, call, poll, running, xc>>
    ELSE /\ OnExecution(src, m)
         /\ UNCHANGED ready

\* Mutant: the listener without its test of event.source.
OnMessageAnySource(src, m) ==
    /\ running = 0
    /\ Handle(src, m)
    /\ UNCHANGED <<slotVars, writes, emptyPolls, hist, ctl, present, xc>>

\* The message listener of setupIframe.
OnMessage(src, m) ==
    /\ running = 0
    /\ IF src # Iframe
       THEN /\ lastEvt' = Evt(src, m, NoPost, FALSE)
            /\ UNCHANGED <<ready, pendingExecutions, call, poll, running, xc>>
       ELSE Handle(src, m)
    /\ UNCHANGED <<slotVars, writes, emptyPolls, hist, ctl, present, xc>>

\* ---------------------------------------------------------------------
\* Time
\* ---------------------------------------------------------------------
CallTimers(k) ==
    {call[k].readyLeft, call[k].execLeft}
        \cup (IF ready THEN {call[k].checkLeft} ELSE {})

Timers ==
    (UNION {CallTimers(k) : k \in CallIds} \cup {poll[p].sleepLeft : p \in PollIds}
        \cup {xc[c].sleepLeft : c \in CustomIds}) \ {NoTimer}

Left(t, d) == IF t = NoTimer THEN NoTimer ELSE t - d

\* The interval of a waiting call after d ms: its ticks in between found
\* ready = false.
CheckLeft(t, d) ==
    IF t = NoTimer THEN NoTimer
    ELSE IF t >= d THEN t - d
    ELSE (ReadyPollMs - ((d - t) % ReadyPollMs)) % ReadyPollMs

Elapse(d) ==
    /\ call' = [k \in CallIds |->
                 [call[k] EXCEPT
                    !.readyLeft = Left(@, d),
                    !.execLeft = Left(@, d),
                    !.checkLeft = CheckLeft(@, d),
                    !.waited = IF call[k].phase = "waiting" THEN @ + d ELSE @,
                    !.age = IF k \in pendingExecutions THEN @ + d ELSE @]]
    /\ poll' = [p \in PollIds |->
                 [poll[p] EXCEPT
                    !.sleepLeft = Left(@, d),
                    !.elapsed = IF poll[p].pc = "sleeping" THEN @ + d ELSE @]]
    /\ xc' = [c \in CustomIds |->
               [xc[c] EXCEPT
                  !.sleepLeft = Left(@, d),
                  !.slept = IF xc[c].pc = "backoff" THEN @ + d ELSE @]]

Advance ==
    /\ running = 0
    /\ Timers # {}
    /\ 0 \notin Timers
    /\ Elapse(Min(Timers))
    /\ UNCHANGED <<slotVars, running, writes, emptyPolls, hist, ctl, ready,
                   pendingExecutions, lastEvt, present>>

\* Time moves by one Quantum, or to the next timer when that is sooner.
AdvanceQuantum ==
    /\ running = 0
    /\ Timers # {}
    /\ 0 \notin Timers
    /\ Elapse(Min(Timers \cup {Quantum}))
    /\ UNCHANGED <<slotVars, running, writes, emptyPolls, hist, ctl, ready,
                   pendingExecutions, lastEvt, present>>

\* ---------------------------------------------------------------------
\* Command channel (content.js)
\* ---------------------------------------------------------------------

\* JSON.parse(decodeURIComponent(encoded)) of the command cookie: "bad" is
\* content that does not decode or parse, "null" is the JSON text null.
ParseOk(raw) == raw # "bad"

\* JSON.stringify of a Result: a value the executor returned that holds a
\* cycle or a BigInt makes it throw.
StringifyOk(res) == ~(res.tag = "value" /\ res.v = "cyclic")

\* executeCommand for the actions that do not suspend.
ExecuteSync(cmd) ==
    CASE cmd.raw = "click" -> Res("success", "")
      [] cmd.raw = "getText" -> Res("value", IF present THEN "text" ELSE "undefined")
      [] cmd.raw = "getAllText" -> Res("value", IF present THEN "texts" ELSE "noTexts")
      [] cmd.raw = "fillInput" ->
            (IF present THEN Res("success", "") ELSE Res("fail", "Element not found"))
      [] cmd.raw = "getAttribute" -> Res("value", IF present THEN "attr" ELSE "undefined")
      [] cmd.raw = "null" -> Res("error", "TypeError")
      [] OTHER -> Res("error", "Unknown action")

\* Mutant: the loop of waitForElement tests i <= cmd.timeout / 100.
WaitGoesOnInclusive(i, timeout) == i * WaitStepMs <= timeout

\* waitForElement: the test of the for loop, i < cmd.timeout / 100.
WaitGoesOn(i, timeout) == i * WaitStepMs < timeout

\* waitForElement from the test of the loop with counter i to the next
\* suspension or to the end of the handler.
WaitFrom(pl, i) ==
    IF ~WaitGoesOn(i, pl.cmd.timeout)
    THEN [pl EXCEPT !.pc = "writeResult", !.i = i, !.sleepLeft = NoTimer,
                    !.res = Res("fail", "Timeout")]
    ELSE IF present
    THEN [pl EXCEPT !.pc = "writeResult", !.i = i, !.sleepLeft = NoTimer,
                    !.res = Res("success", "")]
    ELSE [pl EXCEPT !.pc = "sleeping", !.i = i, !.sleepLeft = WaitStepMs]

FreePoll == Min({p \in PollIds : poll[p].pc = "idle"} \cup {MaxPolls + 1})

Bump(w, field) == [hist EXCEPT ![w][field] = @ + 1]

\* The last cookie write of an invocation: the status is counted and the
\* invocation is over.
BumpLast(w) == [hist EXCEPT ![w].terminals = @ + 1, ![w].finished = @ + 1]

\* Mutant: a poll that finds no command writes status idle.
PollEmptyWritesIdle ==
    /\ running = 0
    /\ cmdSlot = NoCmd
    /\ emptyPolls < MaxEmptyPolls
    /\ emptyPolls' = emptyPolls + 1
    /\ statusSlot' = [w |-> 0, v |-> "idle"]
    /\ UNCHANGED <<cmdSlot, resultSlot, poll, running, writes, hist, ready,
                   pendingExecutions, call, lastEvt, present, ctl, xc>>

\* checkForCommands on an empty command slot: line 132 finds no cookie and
\* the function returns.
PollEmpty ==
    /\ running = 0
    /\ cmdSlot = NoCmd
    /\ emptyPolls < MaxEmptyPolls
    /\ emptyPolls' = emptyPolls + 1
    /\ UNCHANGED <<slotVars, poll, running, writes, hist, ready, pendingExecutions,
                   call, lastEvt, present, ctl, xc>>

\* checkForCommands, lines 129-135: the cookie is read and parsed.
PollStart ==
    /\ running = 0
    /\ cmdSlot # NoCmd
    /\ FreePoll \in PollIds
    /\ hist[cmdSlot.w].picks < MaxRepeat
    /\ poll' = [poll EXCEPT ![FreePoll] =
                  [IdlePoll EXCEPT !.w = cmdSlot.w, !.cmd = cmdSlot,
                      !.pc = IF ParseOk(cmdSlot.raw) THEN "clear" ELSE "errResult"]]
    /\ running' = FreePoll
    /\ hist' = Bump(cmdSlot.w, "picks")
    /\ UNCHANGED <<slotVars, writes, emptyPolls, ctl, ready, pendingExecutions, call, lastEvt,
                   present, xc>>

\* Mutant: the command cookie is not expired before the execution.
PollClearSkipped(p) ==
    /\ running = p
    /\ poll[p].pc = "clear"
    /\ poll' = [poll EXCEPT ![p].pc = "processing"]
    /\ UNCHANGED <<slotVars, running, writes, emptyPolls, hist, ctl, ready,
                   pendingExecutions, call, lastEvt, present, xc>>

\* line 138: the command cookie is expired.
PollClear(p) ==
    /\ running = p
    /\ poll[p].pc = "clear"
    /\ cmdSlot' = NoCmd
    /\ poll' = [poll EXCEPT ![p].pc = "processing"]
    /\ UNCHANGED <<statusSlot, resultSlot, running, writes, emptyPolls, hist, ctl, ready,
                   pendingExecutions, call, lastEvt, present, xc>>

\* line 141: status processing.
PollProcessing(p) ==
    /\ running = p
    /\ poll[p].pc = "processing"
    /\ statusSlot' = [w |-> poll[p].w, v |-> "processing"]
    /\ poll' = [poll EXCEPT ![p].pc = "exec"]
    /\ hist' = Bump(poll[p].w, "processing")
    /\ UNCHANGED <<cmdSlot, resultSlot, running, writes, emptyPolls, ctl, ready,
                   pendingExecutions, call, lastEvt, present, xc>>

\* line 144: executeCommand(command) up to its first suspension.
PollExec(p) ==
    /\ running = p
    /\ poll[p].pc = "exec"
    /\ CASE poll[p].cmd.raw = "waitForElement" ->
              /\ poll' = [poll EXCEPT ![p] = WaitFrom(poll[p], 0)]
              /\ running' = IF WaitFrom(poll[p], 0).pc = "sleeping" THEN 0 ELSE p
              /\ UNCHANGED <<call, pendingExecutions, xc>>
         [] poll[p].cmd.raw = "custom" ->
              /\ NextCall \in CallIds
              /\ call' = [call EXCEPT ![NextCall] = ExecuteEntry(p)]
              /\ pendingExecutions' = PendingAfterEntry(NextCall)
              /\ poll' = [poll EXCEPT ![p].pc = "awaiting", ![p].call = NextCall]
              /\ running' = 0
         [] OTHER ->
              /\ poll' = [poll EXCEPT ![p].pc = "writeResult",
                                      ![p].res = ExecuteSync(poll[p].cmd)]
              /\ UNCHANGED <<running, call, pendingExecutions, xc>>
    /\ UNCHANGED <<slotVars, writes, emptyPolls, hist, ctl, ready, lastEvt, present, xc>>

\* line 102: the 100 ms sleep of waitForElement ends.
WaitWake(p) ==
    /\ running = 0
    /\ poll[p].pc = "sleeping"
    /\ poll[p].sleepLeft = 0
    /\ poll' = [poll EXCEPT ![p] = WaitFrom(poll[p], poll[p].i + 1)]
    /\ running' = IF WaitFrom(poll[p], poll[p].i + 1).pc = "sleeping" THEN 0 ELSE p
    /\ UNCHANGED <<slotVars, writes, emptyPolls, hist, ctl, ready, pendingExecutions, call,
                   lastEvt, present, xc>>

\* lines 147-148: the Result is serialised and written.
PollWriteResult(p) ==
    /\ running = p
    /\ poll[p].pc = "writeResult"
    /\ IF StringifyOk(poll[p].res)
       THEN /\ resultSlot' = [w |-> poll[p].w, res |-> poll[p].res]
            /\ poll' = [poll EXCEPT ![p].pc = "writeStatus"]
            /\ hist' = Bump(poll[p].w, "results")
       ELSE /\ poll' = [poll EXCEPT ![p].pc = "errResult"]
            /\ UNCHANGED <<resultSlot, hist, xc>>
    /\ UNCHANGED <<cmdSlot, statusSlot, running, writes, emptyPolls, ctl, ready,
                   pendingExecutions, call, lastEvt, present, xc>>

\* line 149: status done.
PollWriteStatus(p) ==
    /\ running = p
    /\ poll[p].pc = "writeStatus"
    /\ statusSlot' = [w |-> poll[p].w, v |-> "done"]
    /\ poll' = [poll EXCEPT ![p] = IdlePoll]
    /\ running' = 0
    /\ hist' = BumpLast(poll[p].w)
    /\ UNCHANGED <<cmdSlot, resultSlot, writes, emptyPolls, ctl, ready, pendingExecutions, call,
                   lastEvt, present, xc>>

\* lines 152-154 of the catch block: the parse-error Result.
PollErrResult(p) ==
    /\ running = p
    /\ poll[p].pc = "errResult"
    /\ resultSlot' = [w |-> poll[p].w, res |-> Res("parse", "")]
    /\ poll' = [poll EXCEPT ![p].pc = "errStatus"]
    /\ hist' = Bump(poll[p].w, "results")
    /\ UNCHANGED <<cmdSlot, statusSlot, running, writes, emptyPolls, ctl, ready,
                   pendingExecutions, call, lastEvt, present, xc>>

\* line 155 of the catch block: status error.
PollErrStatus(p) ==
    /\ running = p
    /\ poll[p].pc = "errStatus"
    /\ statusSlot' = [w |-> poll[p].w, v |-> "error"]
    /\ poll' = [poll EXCEPT ![p] = IdlePoll]
    /\ running' = 0
    /\ hist' = BumpLast(poll[p].w)
    /\ UNCHANGED <<cmdSlot, resultSlot, writes, emptyPolls, ctl, ready, pendingExecutions, call,
                   lastEvt, present, xc>>

\* ---------------------------------------------------------------------
\* executeCustomCode (content.js)
\* ---------------------------------------------------------------------
MaxAttempts == 3
BackoffMs == 100

\* The test of the for loop with loop variable `attempt': the next
\* sendMessage, or the end of the function with no return statement run.
CustomLoop(x, attempt) ==
    IF attempt < MaxAttempts
    THEN [x EXCEPT !.pc = "sending", !.attempt = attempt, !.sent = @ + 1,
                   !.sleepLeft = NoTimer]
    ELSE [x EXCEPT !.pc = "returned", !.attempt = attempt, !.ret = "none",
                   !.sleepLeft = NoTimer]

\* executeCustomCode(code) up to its first suspension.
CustomStart(c) ==
    /\ running = 0
    /\ xc[c].pc = "idle"
    /\ \A b \in CustomIds : b < c => xc[b].pc # "idle"
    /\ xc' = [xc EXCEPT ![c] = CustomLoop(NoCustom, 0)]
    /\ UNCHANGED <<slotVars, poll, running, writes, emptyPolls, hist, ready,
                   pendingExecutions, call, lastEvt, present, ctl>>

\* The callback of sendMessage with no lastError: the response is returned.
CustomResponse(c, r) ==
    /\ running = 0
    /\ xc[c].pc = "sending"
    /\ xc' = [xc EXCEPT ![c].pc = "returned", ![c].ret = r]
    /\ UNCHANGED <<slotVars, poll, running, writes, emptyPolls, hist, ready,
                   pendingExecutions, call, lastEvt, present, ctl>>

\* Mutant: the catch block retries while attempt < 3.
CustomFailureRetriesAgain(c) ==
    /\ running = 0
    /\ xc[c].pc = "sending"
    /\ xc' = [xc EXCEPT ![c] =
                IF xc[c].attempt < 3
                THEN [xc[c] EXCEPT !.pc = "backoff", !.failed = @ + 1,
                                   !.sleepLeft = BackoffMs, !.slept = 0]
                ELSE [xc[c] EXCEPT !.pc = "returned", !.failed = @ + 1,
                                   !.ret = "connection failed"]]
    /\ UNCHANGED <<slotVars, poll, running, writes, emptyPolls, hist, ready,
                   pendingExecutions, call, lastEvt, present, ctl>>

\* The attempt fails (lastError in the callback, or sendMessage throws) and
\* the catch block runs: the backoff while attempt < 2, else the
\* connection-failure Result.
CustomFailure(c) ==
    /\ running = 0
    /\ xc[c].pc = "sending"
    /\ xc' = [xc EXCEPT ![c] =
                IF xc[c].attempt < 2
                THEN [xc[c] EXCEPT !.pc = "backoff", !.failed = @ + 1,
                                   !.sleepLeft = BackoffMs, !.slept = 0]
                ELSE [xc[c] EXCEPT !.pc = "returned", !.failed = @ + 1,
                                   !.ret = "connection failed"]]
    /\ UNCHANGED <<slotVars, poll, running, writes, emptyPolls, hist, ready,
                   pendingExecutions, call, lastEvt, present, ctl>>

\* The 100 ms timer of the backoff fires: continue, attempt++.
CustomBackoffEnds(c) ==
    /\ running = 0
    /\ xc[c].pc = "backoff"
    /\ xc[c].sleepLeft = 0
    /\ xc' = [xc EXCEPT ![c] = CustomLoop(xc[c], xc[c].attempt + 1)]
    /\ UNCHANGED <<slotVars, poll, running, writes, emptyPolls, hist, ready,
                   pendingExecutions, call, lastEvt, present, ctl>>

\* ---------------------------------------------------------------------
\* Environment: the controller, the executor, the page
\* ---------------------------------------------------------------------
Cmd(raw, timeout) == [raw |-> raw, timeout |-> timeout]

ChanCmds == {Cmd("bad", 0), Cmd("click", 0), Cmd("waitForElement", 100), Cmd("custom", 0)}

\* A write of the command cookie by the controller.
WriteCmd(c) ==
    /\ writes < MaxWrites
    /\ writes' = writes + 1
    /\ cmdSlot' = [w |-> writes + 1, raw |-> c.raw, timeout |-> c.timeout]
    /\ hist' = [hist EXCEPT ![writes + 1].raw = c.raw]
    /\ UNCHANGED <<statusSlot, resultSlot, poll, running, emptyPolls, ready,
                   pendingExecutions, call, lastEvt, present, xc>>

\* A controller that writes whenever it likes, whatever the status says:
\* up to MaxUnasked commands.
AnyWrite(c) ==
    /\ writes < MaxUnasked
    /\ WriteCmd(c)
    /\ UNCHANGED ctl

\* A controller that writes its next command at any time.
FreeWrite(c) ==
    /\ WriteCmd(c)
    /\ UNCHANGED ctl

\* The controller of section 6: write cmd, poll status until done or error,
\* read result; then the next command.
CtlWrite(c) ==
    /\ ctl.pc = "idle"
    /\ WriteCmd(c)
    /\ ctl' = [IdleCtl EXCEPT !.pc = "polling", !.w = writes + 1]

CtlPollStatus ==
    /\ ctl.pc = "polling"
    /\ statusSlot.v \in {"done", "error"}
    /\ ctl' = [ctl EXCEPT !.pc = "reading", !.statusW = statusSlot.w]
    /\ UNCHANGED <<slotVars, poll, running, writes, emptyPolls, hist, ready, pendingExecutions,
                   call, lastEvt, present, xc>>

CtlReadResult ==
    /\ ctl.pc = "reading"
    /\ ctl' = [ctl EXCEPT !.pc = "idle", !.resultW = resultSlot.w]
    /\ UNCHANGED <<slotVars, poll, running, writes, emptyPolls, hist, ready, pendingExecutions,
                   call, lastEvt, present, xc>>

\* The page inserts the element the selector names.
ElementAppears ==
    /\ running = 0
    /\ ~present
    /\ present' = TRUE
    /\ poll' = [p \in PollIds |->
                 IF poll[p].pc = "sleeping"
                 THEN [poll[p] EXCEPT !.appearAt = poll[p].elapsed]
                 ELSE poll[p]]
    /\ UNCHANGED <<slotVars, running, writes, emptyPolls, hist, ctl, ready, pendingExecutions,
                   call, lastEvt, xc>>

Msg(type, id, kind, val) == [type |-> type, id |-> id, kind |-> kind, val |-> val]

ReadyMsgs == {Msg("SANDBOX_READY", 0, "", "")}

ExecMsgs(vals, errs) ==
    {Msg("EXECUTION_RESULT", id, "", v) : id \in CallIds, v \in vals}
        \cup {Msg("EXECUTION_ERROR", id, "", e) : id \in CallIds, e \in errs}

DomIds == {1, 2}

DomMsgs ==
    {Msg(t, id, k, "") : t \in {"DOM_QUERY", "DOM_QUERY_ALL"}, id \in DomIds,
                         k \in {"hit", "miss", "invalid"}}
        \cup {Msg("DOCUMENT_QUERY", id, k, "") : id \in DomIds, k \in {"ok", "noBody"}}
        \cup {Msg("CUSTOM_QUERY", id, k, "") : id \in DomIds,
                 k \in {"value", "missing", "getterThrows", "noPath", "uncloneable"}}

ChanMsgs == ReadyMsgs \cup ExecMsgs({"obj", "falsy", "cyclic"}, {"boom", NoField})
BridgeMsgs == ReadyMsgs \cup ExecMsgs({"a", "b"}, {"boom", NoField})
ListenerMsgs == ReadyMsgs \cup ExecMsgs({"a"}, {"boom", NoField}) \cup DomMsgs

\* ---------------------------------------------------------------------
\* Specifications
\* ---------------------------------------------------------------------
Init ==
    /\ cmdSlot = NoCmd
    /\ statusSlot = NoStatus
    /\ resultSlot = NoResult
    /\ poll = [p \in PollIds |-> IdlePoll]
    /\ running = 0
    /\ writes = 0
    /\ emptyPolls = 0
    /\ hist = [w \in WriteIds |-> NoHist]
    /\ ready = FALSE
    /\ pendingExecutions = {}
    /\ call = [k \in CallIds |-> NoCall]
    /\ lastEvt = NoEvt
    /\ present = FALSE
    /\ ctl = IdleCtl
    /\ xc = [c \in CustomIds |-> NoCustom]

\* The command channel with the bridge behind it.
Next ==
    \/ \E c \in ChanCmds : AnyWrite(c)
    \/ PollEmpty
    \/ PollStart
    \/ \E p \in PollIds : PollClear(p)
    \/ \E p \in PollIds : PollProcessing(p)
    \/ \E p \in PollIds : PollExec(p)
    \/ \E p \in PollIds : PollWriteResult(p)
    \/ \E p \in PollIds : PollWriteStatus(p)
    \/ \E p \in PollIds : PollErrResult(p)
    \/ \E p \in PollIds : PollErrStatus(p)
    \/ \E p \in PollIds : WaitWake(p)
    \/ \E k \in CallIds : ReadyCheck(k)
    \/ \E k \in CallIds : ReadyTimeout(k)
    \/ \E k \in CallIds : ExecTimeout(k)
    \/ \E m \in ChanMsgs : OnMessage(Iframe, m)
    \/ ElementAppears
    \/ Advance

Spec == Init /\ [][Next]_vars

\* The bridge with callers of execute() and the messages of the executor.
BridgeNext ==
    \/ Execute
    \/ \E k \in CallIds : ReadyCheck(k)
    \/ \E k \in CallIds : ReadyTimeout(k)
    \/ \E k \in CallIds : ExecTimeout(k)
    \/ \E m \in BridgeMsgs : OnMessage(Iframe, m)
    \/ Advance

BridgeSpec == Init /\ [][BridgeNext]_vars

\* The bridge with the handshake: SANDBOX_READY and a response, from the
\* executor's window and from another window.
GateMsgs == ReadyMsgs \cup ExecMsgs({"a"}, {})

GateNext ==
    \/ Execute
    \/ \E k \in CallIds : ReadyCheck(k)
    \/ \E k \in CallIds : ReadyTimeout(k)
    \/ \E k \in CallIds : ExecTimeout(k)
    \/ \E src \in {Iframe, Foreign}, m \in GateMsgs : OnMessage(src, m)
    \/ Advance

GateSpec == Init /\ [][GateNext]_vars

\* The message listener alone: every message type from every source, with
\* calls of execute() waiting or dispatched, and no time passing.
ListenerNext ==
    \/ Execute
    \/ \E src \in {Iframe, Foreign}, m \in ListenerMsgs : OnMessage(src, m)

ListenerSpec == Init /\ [][ListenerNext]_vars

\* The channel driven by the controller of section 6.
CtlCmds == {Cmd("click", 0), Cmd("waitForElement", 100)}

CtlNext ==
    \/ \E c \in CtlCmds : CtlWrite(c)
    \/ CtlPollStatus
    \/ CtlReadResult
    \/ PollEmpty
    \/ PollStart
    \/ \E p \in PollIds : PollClear(p)
    \/ \E p \in PollIds : PollProcessing(p)
    \/ \E p \in PollIds : PollExec(p)
    \/ \E p \in PollIds : PollWriteResult(p)
    \/ \E p \in PollIds : PollWriteStatus(p)
    \/ \E p \in PollIds : WaitWake(p)
    \/ ElementAppears
    \/ Advance

CtlSpec == Init /\ [][CtlNext]_vars

\* waitForElement against a page that inserts the element at any time.
WaitCmds == {Cmd("waitForElement", t) : t \in {0 - 100, 0, 100, 150, 200}}

WaitNext ==
    \/ \E c \in WaitCmds : AnyWrite(c)
    \/ PollEmpty
    \/ PollStart
    \/ \E p \in PollIds : PollClear(p)
    \/ \E p \in PollIds : PollProcessing(p)
    \/ \E p \in PollIds : PollExec(p)
    \/ \E p \in PollIds : PollWriteResult(p)
    \/ \E p \in PollIds : PollWriteStatus(p)
    \/ \E p \in PollIds : WaitWake(p)
    \/ ElementAppears
    \/ AdvanceQuantum

WaitSpec == Init /\ [][WaitNext]_vars

\* The channel with a controller that writes a command while the one
\* before it may still be executing.
OverlapCmds == {Cmd("click", 0), Cmd("waitForElement", 200)}

OverlapNext ==
    \/ \E c \in OverlapCmds : FreeWrite(c)
    \/ PollEmpty
    \/ PollStart
    \/ \E p \in PollIds : PollClear(p)
    \/ \E p \in PollIds : PollProcessing(p)
    \/ \E p \in PollIds : PollExec(p)
    \/ \E p \in PollIds : PollWriteResult(p)
    \/ \E p \in PollIds : PollWriteStatus(p)
    \/ \E p \in PollIds : WaitWake(p)
    \/ ElementAppears
    \/ Advance

OverlapSpec == Init /\ [][OverlapNext]_vars

\* executeCustomCode against a coordinator that answers or fails.
Responses == {"response", "undefined"}

CustomNext ==
    \/ \E c \in CustomIds : CustomStart(c)
    \/ \E c \in CustomIds, r \in Responses : CustomResponse(c, r)
    \/ \E c \in CustomIds : CustomFailure(c)
    \/ \E c \in CustomIds : CustomBackoffEnds(c)
    \/ Advance

CustomSpec == Init /\ [][CustomNext]_vars

\* ---------------------------------------------------------------------
\* Claims
\* ---------------------------------------------------------------------
WellFormed(w) == hist[w].raw \notin {"none", "bad"}

Started(p) == poll[p].pc \in {"exec", "sleeping", "awaiting", "writeResult",
                              "writeStatus", "errResult", "errStatus"}

C3_MalformedOnce ==
    \A w \in WriteIds : hist[w].raw = "bad" =>
        /\ hist[w].picks <= 1
        /\ hist[w].results <= 1
        /\ hist[w].terminals <= 1

\* C2: the controller of section 6 reads, for the command it wrote, the
\* terminal status and the Result written for that command.
C2_ReadsOwnResult ==
    /\ (ctl.pc \in {"reading", "idle"} /\ ctl.w # 0) => ctl.statusW = ctl.w
    /\ (ctl.pc = "idle" /\ ctl.w # 0) => ctl.resultW = ctl.w

\* C4: no suspension point waits without a deadline, so that a command
\* whose status processing was written reaches its terminal status: a poll
\* suspended in waitForElement has its 100 ms timer armed, and a poll
\* suspended in execute() has the 5 s timer of the readiness wait armed or
\* has its record in the table with the 30 s timer armed.
C4_DeadlineArmed ==
    \A p \in PollIds :
        /\ poll[p].pc = "sleeping" => poll[p].sleepLeft >= 0
        /\ poll[p].pc = "awaiting" =>
              \/ /\ call[poll[p].call].phase = "waiting"
                 /\ call[poll[p].call].readyLeft >= 0
              \/ /\ call[poll[p].call].phase = "dispatched"
                 /\ poll[p].call \in pendingExecutions
                 /\ call[poll[p].call].execLeft >= 0

\* C5: a dispatched call is pending for at most 30 s; it is rejected with
\* "Execution timeout" at 30 s exactly, its record leaving the table in that
\* step; from then on no step changes its outcome or puts it back, and a
\* message that carries its id changes neither a call nor the table.
C5_TimeoutRemoves ==
    [][\A k \in CallIds :
         /\ k \in pendingExecutions => call[k].age <= 30000
         /\ (call'[k].out = "Execution timeout" /\ call[k].out # "Execution timeout") =>
               /\ call[k].age = 30000
               /\ k \in pendingExecutions
               /\ k \notin pendingExecutions'
               /\ call'[k].phase = "rejected"
         /\ call[k].out = "Execution timeout" =>
               /\ call'[k].phase = call[k].phase
               /\ call'[k].out = call[k].out
               /\ k \notin pendingExecutions
               /\ k \notin pendingExecutions'
               /\ (lastEvt' # lastEvt /\ lastEvt'.id = k /\ lastEvt'.type \in ExecTypes) =>
                     (call' = call /\ pendingExecutions' = pendingExecutions)
      ]_vars

\* A call timed out, and then a response of the executor with its id came.
C5_Witness ==
    \E k \in CallIds :
        /\ call[k].out = "Execution timeout"
        /\ k \notin pendingExecutions
        /\ lastEvt.src = Iframe
        /\ lastEvt.type \in ExecTypes
        /\ lastEvt.id = k
        /\ lastEvt.at = "settled"

\* C6: a call is settled by a response only by one that carries its own id,
\* with that response's result or error; the step touches no other call and
\* no other record; and a response of the executor for a pending call
\* settles that call.
C6_ByCorrelationId ==
    [][\A k \in CallIds :
         LET answered == /\ call[k].phase = "dispatched"
                         /\ call'[k].phase \in {"resolved", "rejected"}
                         /\ call'[k].out # "Execution timeout"
             mine == /\ lastEvt'.src = Iframe
                     /\ lastEvt'.type \in ExecTypes
                     /\ lastEvt'.id = k
         IN /\ answered =>
                  /\ mine
                  /\ call'[k].out = lastEvt'.val
                  /\ (call'[k].phase = "resolved") = (lastEvt'.type = "EXECUTION_RESULT")
                  /\ k \in pendingExecutions /\ k \notin pendingExecutions'
                  /\ \A j \in CallIds \ {k} :
                        /\ call'[j] = call[j]
                        /\ (j \in pendingExecutions') = (j \in pendingExecutions)
            /\ (lastEvt' # lastEvt /\ mine /\ k \in pendingExecutions
                    /\ lastEvt'.val # NoField) => answered
      ]_vars

\* Two calls in flight together, the first dispatched no later than the
\* second, answered in reverse order, each with its own result.
C6_Witness ==
    /\ call[1].phase = "resolved" /\ call[1].out = "a"
    /\ call[2].phase = "resolved" /\ call[2].out = "b"
    /\ call[1].execLeft # NoTimer /\ call[2].execLeft # NoTimer
    /\ call[1].execLeft <= call[2].execLeft
    /\ lastEvt.src = Iframe /\ lastEvt.id = 1 /\ lastEvt.at = "open"

\* C7: a call waits for readiness only when issued with ready = false, for
\* at most 5 s; it leaves the wait either dispatched, with ready = true, or
\* rejected with "Sandbox not ready", with ready = false and after 5 s exactly.
C7_ReadinessWait ==
    [][\A k \in CallIds :
         /\ call[k].phase = "waiting" => call[k].waited <= 5000
         /\ (call[k].phase = "none" /\ call'[k].phase # "none") =>
               (call'[k].phase = "waiting") = ~ready
         /\ (call[k].phase = "waiting" /\ call'[k].phase # "waiting") =>
               \/ /\ call'[k].phase = "dispatched"
                  /\ ready
                  /\ k \in pendingExecutions'
               \/ /\ call'[k].phase = "rejected"
                  /\ call'[k].out = "Sandbox not ready"
                  /\ ~ready
                  /\ call[k].waited = 5000
         /\ (call'[k].out = "Sandbox not ready" /\ call[k].out # "Sandbox not ready") =>
               call[k].phase = "waiting"
      ]_vars

\* One call gave up after 5 s; another waited, saw SANDBOX_READY arrive and
\* was dispatched.
C7_Witness ==
    \E k, j \in CallIds :
        /\ call[k].out = "Sandbox not ready"
        /\ call[j].phase = "dispatched" /\ call[j].waited > 0 /\ call[j].waited < 5000
        /\ j \in pendingExecutions

\* C8: a run of the listener on a message from another window changes
\* neither ready nor the table nor a call, and posts nothing.
C8_ForeignIgnored ==
    [][(lastEvt' # lastEvt /\ lastEvt'.src # Iframe) =>
          /\ ready' = ready
          /\ pendingExecutions' = pendingExecutions
          /\ call' = call
          /\ poll' = poll
          /\ lastEvt'.post = NoPost
          /\ ~lastEvt'.threw
      ]_vars

\* Another window sent EXECUTION_RESULT with the id of a pending call, and
\* the call is still pending.
C8_Witness ==
    /\ lastEvt.src = Foreign
    /\ lastEvt.type = "EXECUTION_RESULT"
    /\ lastEvt.id \in pendingExecutions
    /\ call[lastEvt.id].phase = "dispatched"

\* C9: the listener answers every query of the executor with one DOM_RESULT
\* that carries the id of the query, and no exception leaves it.
C9_AlwaysAnswered ==
    (lastEvt.src = Iframe /\ lastEvt.type \in DomTypes) =>
        /\ lastEvt.post.type = "DOM_RESULT"
        /\ lastEvt.post.id = lastEvt.id
        /\ ~lastEvt.threw

\* C10: waitForElement with timeout T > 0 whose element appeared t ms after
\* the handler started, 0 < t < T, returns {success: true}.
C10_AppearsInTime ==
    \A p \in PollIds :
        (/\ poll[p].cmd.raw = "waitForElement"
         /\ poll[p].pc \in {"writeResult", "writeStatus"}
         /\ poll[p].cmd.timeout > 0
         /\ poll[p].appearAt > 0
         /\ poll[p].appearAt < poll[p].cmd.timeout)
            => poll[p].res = Res("success", "")

\* ceil(t / 100) for t > 0, and 0 for t <= 0.
CeilSteps(t) == IF t <= 0 THEN 0 ELSE (t + WaitStepMs - 1) \div WaitStepMs

TimedOut(p) ==
    /\ poll[p].cmd.raw = "waitForElement"
    /\ poll[p].pc \in {"writeResult", "writeStatus"}
    /\ poll[p].res = Res("fail", "Timeout")
    /\ ~present

\* C11: waitForElement whose element never exists makes ceil(timeout/100)
\* tests, one every 100 ms, and returns Timeout after them, not before
\* `timeout' ms have passed; with timeout <= 0 it makes no test and returns
\* Timeout at once.  While the element is absent the handler returns
\* nothing else.
C11_TimeoutChecks ==
    \A p \in PollIds :
        /\ (poll[p].pc = "sleeping" /\ ~present) =>
              /\ poll[p].i < CeilSteps(poll[p].cmd.timeout)
              /\ poll[p].elapsed + poll[p].sleepLeft = (poll[p].i + 1) * WaitStepMs
        /\ (poll[p].cmd.raw = "waitForElement" /\ ~present
                /\ poll[p].pc \in {"writeResult", "writeStatus"}) =>
              poll[p].res = Res("fail", "Timeout")
        /\ TimedOut(p) =>
              /\ poll[p].i = CeilSteps(poll[p].cmd.timeout)
              /\ poll[p].elapsed = poll[p].i * WaitStepMs
              /\ poll[p].elapsed >= poll[p].cmd.timeout
              /\ poll[p].cmd.timeout <= 0 => (poll[p].i = 0 /\ poll[p].elapsed = 0)

\* A wait of 150 ms timed out after two tests and 200 ms, the element
\* never there.
C11_Witness ==
    \E p \in PollIds :
        /\ TimedOut(p)
        /\ poll[p].cmd.timeout = 150
        /\ poll[p].i = 2
        /\ poll[p].elapsed = 200

\* C12: every failure of execute() comes back to the custom command as a
\* Result {error, stack}: when the call of a suspended poll is rejected, and
\* when the executor answers it with EXECUTION_ERROR, the poll goes on to
\* write that Result; and executeCommand leaves every command with a Result.
C12_FailuresReturned ==
    [][\A p \in PollIds :
         /\ poll[p].pc = "awaiting" =>
               /\ (call'[poll[p].call].phase = "rejected") =>
                     /\ poll'[p].pc = "writeResult"
                     /\ poll'[p].res = Res("error", call'[poll[p].call].out)
               /\ (/\ lastEvt' # lastEvt
                   /\ lastEvt'.src = Iframe
                   /\ lastEvt'.type = "EXECUTION_ERROR"
                   /\ lastEvt'.id = poll[p].call
                   /\ poll[p].call \in pendingExecutions) =>
                     /\ poll'[p].pc = "writeResult"
                     /\ poll'[p].res.tag = "error"
         /\ (poll[p].pc \in {"exec", "sleeping", "awaiting"}
                 /\ poll'[p].pc = "writeResult") => poll'[p].res # NoRes
      ]_vars

\* C13: a poll that finds the command slot empty writes no slot, starts
\* no invocation and no call of execute(); the result slot and the status
\* slot are written only by an invocation that found a command.
C13_EmptyPollNoOp ==
    [][/\ emptyPolls' # emptyPolls =>
             /\ cmdSlot = NoCmd
             /\ slotVars' = slotVars
             /\ poll' = poll
             /\ running' = running
             /\ hist' = hist
             /\ call' = call
             /\ pendingExecutions' = pendingExecutions
       /\ (statusSlot' # statusSlot \/ resultSlot' # resultSlot) =>
             /\ running \in PollIds
             /\ poll[running].w \in WriteIds
             /\ hist[poll[running].w].picks >= 1
      ]_vars

\* Two polls found the slot empty, around a command that is still
\* executing: the status is the processing of that command.
C13_Witness ==
    /\ emptyPolls >= 2
    /\ cmdSlot = NoCmd
    /\ statusSlot = [w |-> 1, v |-> "processing"]
    /\ resultSlot = NoResult
    /\ \E p \in PollIds : poll[p].pc \in {"sleeping", "awaiting"}

InFlight == {p \in PollIds : poll[p].pc \in {"exec", "sleeping", "awaiting",
                                             "writeResult", "writeStatus"}}

\* C15: at most one command is between its status processing and its
\* terminal status, and the result slot never goes back from the Result of
\* a later command to the Result of an earlier one.
C15_OneInFlight ==
    [][/\ Cardinality(InFlight') <= 1
       /\ resultSlot'.w >= resultSlot.w
      ]_vars

\* C16: the step that posts EXECUTE_CODE for an id leaves the record of
\* that id in the table, and the record of a dispatched id leaves the table
\* only in a run of the listener on a response with that id or at the 30 s
\* timeout; so no response finds a dispatched id unknown before one of these.
C16_RecordBeforeMessages ==
    [][\A k \in CallIds :
         /\ (call[k].phase # "dispatched" /\ call'[k].phase = "dispatched") =>
               /\ k \in pendingExecutions'
               /\ call'[k].execLeft = ExecTimeoutMs
         /\ (k \in pendingExecutions /\ k \notin pendingExecutions') =>
               \/ /\ lastEvt'.src = Iframe
                  /\ lastEvt'.type \in ExecTypes
                  /\ lastEvt'.id = k
                  /\ lastEvt'.at = "open"
               \/ call'[k].out = "Execution timeout"
         /\ (k \notin pendingExecutions /\ k \in pendingExecutions') =>
               (call[k].phase # "dispatched" /\ call'[k].phase = "dispatched")
      ]_vars

\* The executor answered in the task after the dispatch, before any time
\* passed, and the answer found the record.
C16_Witness ==
    \E k \in CallIds :
        /\ call[k].phase = "resolved"
        /\ call[k].execLeft = ExecTimeoutMs
        /\ lastEvt.src = Iframe /\ lastEvt.type = "EXECUTION_RESULT"
        /\ lastEvt.id = k /\ lastEvt.at = "open"

\* C17: the id of a call is in the table exactly while the call is
\* dispatched and its promise is not settled.
C17_TableIffUnsettled ==
    \A k \in CallIds : (k \in pendingExecutions) = (call[k].phase = "dispatched")

\* C18: ready starts false, becomes true only in a run of the listener on
\* SANDBOX_READY from the iframe's window and never becomes false again;
\* and EXECUTE_CODE is posted only by a step that starts and ends with
\* ready = true.
C18_ReadinessGate ==
    /\ ready = FALSE
    /\ [][/\ ready => ready'
          /\ (~ready /\ ready') =>
                /\ lastEvt'.src = Iframe
                /\ lastEvt'.type = "SANDBOX_READY"
          /\ \A k \in CallIds :
                (call[k].phase # "dispatched" /\ call'[k].phase = "dispatched") =>
                    (ready /\ ready')
         ]_vars

\* Another window sent SANDBOX_READY while a call was waiting; the flag
\* stayed false and the call gave up without a post.
C18_Witness ==
    /\ lastEvt.src = Foreign
    /\ lastEvt.type = "SANDBOX_READY"
    /\ ~ready
    /\ pendingExecutions = {}
    /\ \E k \in CallIds : call[k].out = "Sandbox not ready"

\* C19: the parse-error Result and status error are written for the
\* commands that failed to decode or parse, and for no other: a terminal
\* status is error exactly when its command was malformed, and a Result is
\* the parse-error Result exactly when its command was malformed.
C19_ParseErrorIffMalformed ==
    /\ statusSlot.v \in {"done", "error"} =>
          ((statusSlot.v = "error") = (hist[statusSlot.w].raw = "bad"))
    /\ resultSlot.w \in WriteIds =>
          ((resultSlot.res.tag = "parse") = (hist[resultSlot.w].raw = "bad"))

\* C20: whenever the status slot holds the terminal status of a command,
\* the result slot holds the Result written for that command; and the status
\* slot holds the processing of a command only before the terminal status
\* of that command is written.
C20_ResultBeforeStatus ==
    /\ statusSlot.v \in {"done", "error"} => resultSlot.w = statusSlot.w
    /\ statusSlot.v = "processing" => hist[statusSlot.w].terminals = 0

====
